---- MODULE Spec2Model ----
(***************************************************************************)
(* ProductRecommender (src/unnamed/part_001) and the star rendering of     *)
(* ProductCard (src/app/components/ProductCard/ProductCard.tsx), as a      *)
(* state machine.                                                          *)
(*                                                                         *)
(* Representation of JavaScript values:                                    *)
(*   - the typed text and the query are sequences of one-character         *)
(*     strings (<<" ", "a">> is the JS string " a");                       *)
(*   - a value that comes out of the response body is a tagged record:     *)
(*     Undef, Null, Str(s), Num(n), Bool(b), List(seq), Obj(cards);        *)
(*   - a character that a TLA+ string cannot hold is written by its code   *)
(*     point, "U+00a0";                                                    *)
(*   - a rating is an integer number of 1/Scale units (Scale = 4: 14 is    *)
(*     the rating 3.5), so that every rating of the model is a binary      *)
(*     fraction and the floating-point arithmetic of the code is exact.    *)
(*                                                                         *)
(* React: the component runs under React 18 (the app directory of Next.js  *)
(* needs it), on a concurrent root.                                        *)
(*   - A state update made in the handler of a click or of a keystroke is  *)
(*     rendered before the handler's task ends, and the effect of that     *)
(*     render runs in the same task: setQuery(..) and the run of fetchData *)
(*     up to its await are one step.                                       *)
(*   - A state update made anywhere else (in the effect: setLoading(true); *)
(*     after the await: setProducts(..), setLoading(false)) is queued, and *)
(*     the render of the queued updates is a task of its own. Other tasks, *)
(*     the continuation of another request, a click, a keystroke, can run  *)
(*     before it; the render of a click or keystroke leaves the queued     *)
(*     updates for that later render.                                      *)
(* products and loading are the state with the queued updates applied, the *)
(* values the next render of the queue reads; rendered holds the values    *)
(* that the last render of the queue read, which are those on screen.      *)
(***************************************************************************)
EXTENDS Integers, Sequences, FiniteSets, TLC

(* ------------------------------ bounds -------------------------------- *)
\* longest text typed into the input field
MaxLen == 2
\* number of requests dispatched in one behaviour
MaxRequests == 2
\* ratings are multiples of 1/Scale
Scale == 4

(* --------------------------- JavaScript values ------------------------ *)
Undef == [t |-> "undefined"]
Null == [t |-> "null"]
Str(s) == [t |-> "string", v |-> s]
Num(n) == [t |-> "number", v |-> n]
Bool(b) == [t |-> "boolean", v |-> b]
List(l) == [t |-> "array", v |-> l]
Obj(c) == [t |-> "object", cards |-> c]

\* ToBoolean, as used by `a || b`
Truthy(x) ==
    CASE x.t = "undefined" -> FALSE
      [] x.t = "null" -> FALSE
      [] x.t = "string" -> x.v # ""
      [] x.t = "number" -> x.v # 0
      [] x.t = "boolean" -> x.v
      [] OTHER -> TRUE

\* a || b
Or(a, b) == IF Truthy(a) THEN a ELSE b

\* a ?? b
Coalesce(a, b) == IF a.t \in {"undefined", "null"} THEN b ELSE a

\* `x.cards` throws a TypeError when x is null or undefined
CardsThrows(x) == x.t \in {"undefined", "null"}

\* x.cards, for an x on which the property access does not throw
GetCards(x) == IF x.t = "object" THEN x.cards ELSE Undef

\* x.length > 0
LengthPositive(x) ==
    CASE x.t = "array" -> Len(x.v) > 0
      [] x.t = "string" -> x.v # ""
      [] OTHER -> FALSE

(* ------------------------------- texts -------------------------------- *)
\* the characters that String.prototype.trim strips: the WhiteSpace and
\* LineTerminator code points of ECMAScript (tab, line feed, vertical tab,
\* form feed, carriage return, space, no-break space, the Unicode space
\* separators, line and paragraph separator, byte order mark), each by its
\* character where a TLA+ string can hold it and by its code point, with the
\* hexadecimal digits in either case
Whitespace ==
    {" ", "\t", "\n", "\f", "\r"}
        \cup {"U+0009", "U+000a", "U+000b", "U+000c", "U+000d", "U+0020",
              "U+00a0", "U+1680", "U+2000", "U+2001", "U+2002", "U+2003",
              "U+2004", "U+2005", "U+2006", "U+2007", "U+2008", "U+2009",
              "U+200a", "U+2028", "U+2029", "U+202f", "U+205f", "U+3000",
              "U+feff"}
        \cup {"U+000A", "U+000B", "U+000C", "U+000D", "U+00A0", "U+200A",
              "U+202F", "U+205F", "U+FEFF"}
\* what the user types: every text of letters up to MaxLen, a letter after
\* a space, a letter followed by a tab, and a tab followed by a no-break space
Chars == {"a"}
Texts ==
    UNION {[1..n -> Chars] : n \in 0..MaxLen}
        \cup {<<" ", "a">>, <<"a", "\t">>, <<"\t", "U+00a0">>}

RECURSIVE TrimStart(_)
TrimStart(s) ==
    IF s # <<>> /\ Head(s) \in Whitespace THEN TrimStart(Tail(s)) ELSE s

RECURSIVE TrimEnd(_)
TrimEnd(s) ==
    IF s # <<>> /\ s[Len(s)] \in Whitespace
    THEN TrimEnd(SubSeq(s, 1, Len(s) - 1))
    ELSE s

\* String.prototype.trim
trim(s) == TrimEnd(TrimStart(s))

(* --------------------------- product records -------------------------- *)
\* interface Product: the fields the render and the claims read; a field
\* that the record lacks is Undef
P1 == [title |-> "X", price |-> Num(300), rating |-> 18, image |-> Null,
       link |-> Str("https://example.com/x")]
P2 == [title |-> "Y", price |-> Num(1500), rating |-> 14,
       image |-> Str("/img/y.png"), link |-> Str("https://example.com/y")]
P3 == [title |-> "Z", price |-> Num(0), rating |-> 0, image |-> Undef,
       link |-> Undef]
P4 == [title |-> "W", price |-> Num(20), rating |-> 20, image |-> Str(""),
       link |-> Str("")]
\* {title: "Q", rating: 4}: a record without a price
Q == [title |-> "Q", price |-> Undef, rating |-> 16, image |-> Undef,
      link |-> Undef]

\* the lists of Product records a response carries
CardLists == {<<>>, <<P1>>, <<P2, P3, P4>>}
\* lists with an element that is no Product: [{title: "Q", rating: 4}]
BadCardLists == {<<Q>>}

(* ------------------------------ responses ----------------------------- *)
\* what axios.post settles with
NetworkError == [kind |-> "network"]
HttpError == [kind |-> "status", status |-> 500]
Ok(data) == [kind |-> "ok", status |-> 200, data |-> data]

\* res.data: null (the body `null`), a string (a body that is not JSON),
\* {} (no cards key), {cards: null}, {cards: "oops"}, {cards: {}} (which
\* stands for every truthy cards without a positive length, {cards: 5} and
\* {cards: true} too: fetchData and the render treat them alike),
\* {cards: [..]}
Bodies ==
    {Null, Str("<html>"), Obj(Undef), Obj(Null), Obj(Str("oops")),
     Obj(Obj(Undef))}
        \cup {Obj(List(l)) : l \in CardLists \cup BadCardLists}

Responses == {NetworkError, HttpError} \cup {Ok(d) : d \in Bodies}

VARIABLES
    input,      \* useState(''): the typed text
    query,      \* useState(''): the current query
    products,   \* useState<Product[]>([]), queued updates applied
    loading,    \* useState(false), queued updates applied
    rendered,   \* products and loading as the last render read them
    mounted,    \* the component is on screen (no render has thrown)
    inflight,   \* axios.post calls that have not settled: [id, prompt]
    sent,       \* number of axios.post calls made
    errors,     \* number of console.error('Fetch error:', ..) lines
    event,      \* history: the kind of the last event handled
    done,       \* history: the last request that settled, its response and
                \* the state it settled in
    rating,     \* renderStars: its argument, in 1/Scale units
    i,          \* renderStars: the loop variable
    stars,      \* renderStars: the filledPercentage of the stars pushed so far
    pc          \* renderStars: "idle", "loop" or "done"

recommenderVars ==
    <<input, query, products, loading, rendered, mounted, inflight, sent,
      errors, event, done>>
starVars == <<rating, i, stars, pc>>
vars == <<recommenderVars, starVars>>

\* no request has settled yet
NoneDone == [id |-> 0]

\* the state right after the component mounted: the effect ran once with
\* query = '' and returned at `if (!query) return`
Mounted ==
    /\ input = <<>>
    /\ query = <<>>
    /\ products = List(<<>>)
    /\ loading = FALSE
    /\ rendered = [products |-> List(<<>>), loading |-> FALSE]
    /\ mounted = TRUE
    /\ inflight = {}
    /\ sent = 0
    /\ errors = 0
    /\ event = "mount"
    /\ done = NoneDone

Init ==
    /\ Mounted
    /\ rating = 0
    /\ i = 1
    /\ stars = <<>>
    /\ pc = "idle"

\* the effect without its dependency array
EffectRunsEveryRender(qOld, qNew) == TRUE

\* useEffect(.., [query]): after a render React runs the effect when the
\* dependency differs from its value at the previous render
EffectRuns(qOld, qNew) == qNew # qOld

\* `if (!query) return;`: the effect goes on to fetchData() for a non-empty query
EffectDispatches(q) == q # <<>>

\* an effect whose cleanup aborts the request of the previous query
RenderAndEffectAborting(qOld, qNew, ld, fl) ==
    IF EffectRuns(qOld, qNew) /\ EffectDispatches(qNew)
    THEN /\ sent < MaxRequests
         /\ loading' = TRUE
         /\ sent' = sent + 1
         /\ inflight' = {[id |-> sent + 1, prompt |-> qNew]}
    ELSE /\ loading' = ld
         /\ sent' = sent
         /\ inflight' = fl

\* what follows a committed render: when the dependency changed, the effect,
\* which runs fetchData up to its await: setLoading(true), a queued update,
\* and axios.post(.., {prompt: query}). ld and fl are loading and inflight
\* before the effect.
RenderAndEffect(qOld, qNew, ld, fl) ==
    IF EffectRuns(qOld, qNew) /\ EffectDispatches(qNew)
    THEN /\ sent < MaxRequests
         /\ loading' = TRUE
         /\ sent' = sent + 1
         /\ inflight' = fl \cup {[id |-> sent + 1, prompt |-> qNew]}
    ELSE /\ loading' = ld
         /\ sent' = sent
         /\ inflight' = fl

\* onChange={(e) => setInput(e.target.value)}
OnChange(v) ==
    /\ mounted
    /\ input' = v
    /\ event' = "change"
    /\ RenderAndEffect(query, query, loading, inflight)
    /\ UNCHANGED <<query, products, rendered, mounted, errors, done>>
    /\ UNCHANGED starVars

\* `if (input)`
SendAcceptsUntrimmed(s) == s # <<>>

\* handleSend: `if (input.trim())`
SendAccepts(s) == trim(s) # <<>>

\* handleSend, by a click on the button or by Enter in the input field:
\* setQuery(input.trim()) when the trimmed input is not empty
HandleSend ==
    /\ mounted
    /\ event' = "send"
    /\ query' = IF SendAccepts(input) THEN trim(input) ELSE query
    /\ RenderAndEffect(query, query', loading, inflight)
    /\ UNCHANGED <<input, products, rendered, mounted, errors, done>>
    /\ UNCHANGED starVars

\* fetchData after the await: the try block throws when the promise rejected
\* (network error, status outside 2xx) or when `res.data.cards` throws
TryThrows(resp) == resp.kind # "ok" \/ CardsThrows(resp.data)

\* a catch block without setProducts([])
NextProductsKeptOnError(resp, prev) ==
    IF TryThrows(resp) THEN prev ELSE Or(GetCards(resp.data), List(<<>>))

\* setProducts(res.data.cards)
NextProductsNoDefault(resp, prev) ==
    IF TryThrows(resp) THEN List(<<>>) ELSE GetCards(resp.data)

\* setProducts(prev => [...prev, ...cards])
NextProductsMerged(resp, prev) ==
    IF TryThrows(resp)
    THEN List(<<>>)
    ELSE IF GetCards(resp.data).t = "array" /\ prev.t = "array"
         THEN List(prev.v \o GetCards(resp.data).v)
         ELSE Or(GetCards(resp.data), List(<<>>))

\* the argument of the setProducts call that fetchData makes; prev is the
\* value of products before it
NextProducts(resp, prev) ==
    IF TryThrows(resp)
    THEN List(<<>>)
    ELSE Or(GetCards(resp.data), List(<<>>))

\* setLoading(false) at the end of the try block
LoadingAfterTryOnly(resp, prev) == IF TryThrows(resp) THEN prev ELSE FALSE

\* the value of loading after the finally block; prev is its value before
LoadingAfter(resp, prev) == FALSE

\* the callback of products.map throws a TypeError on `product.image` of an
\* element that is null or undefined, and on `product.price.toLocaleString`
\* of a price that is null or undefined
CardThrows(e) ==
    \/ "t" \in DOMAIN e
    \/ e.price.t \in {"undefined", "null"}

\* the render throws a TypeError on `products.length` of null or undefined,
\* on `products.map` of a value of positive length that has no map method,
\* and in the callback of products.map
RenderThrows(p) ==
    \/ p.t \in {"undefined", "null"}
    \/ LengthPositive(p) /\ p.t # "array"
    \/ p.t = "array" /\ \E k \in DOMAIN p.v : CardThrows(p.v[k])

\* the request r settles with resp and fetchData runs from its await to its
\* end: setProducts(..), console.error(..) on the catch path, setLoading(false).
\* The updates are queued for a later render; those of an unmounted component
\* are dropped.
Resolve(r, resp) ==
    /\ r \in inflight
    /\ event' = "resolve"
    /\ done' = [id |-> r.id, resp |-> resp,
                prev |-> [products |-> products, loading |-> loading,
                          errors |-> errors, mounted |-> mounted]]
    /\ errors' = IF TryThrows(resp) THEN errors + 1 ELSE errors
    /\ inflight' = inflight \ {r}
    /\ IF mounted
       THEN /\ products' = NextProducts(resp, products)
            /\ loading' = LoadingAfter(resp, loading)
       ELSE UNCHANGED <<products, loading>>
    /\ UNCHANGED <<input, query, rendered, mounted, sent>>
    /\ UNCHANGED starVars

\* the state that the next render of the queued updates reads
Current == [products |-> products, loading |-> loading]

\* the render of the queued updates, in a task of its own: the component
\* function runs on the current state; when it throws, React unmounts the
\* tree (there is no error boundary) and no effect runs
Render ==
    /\ mounted
    /\ rendered # Current
    /\ event' = "render"
    /\ rendered' = Current
    /\ mounted' = ~RenderThrows(products)
    /\ IF RenderThrows(products)
       THEN UNCHANGED <<loading, sent, inflight>>
       ELSE RenderAndEffect(query, query, loading, inflight)
    /\ UNCHANGED <<input, query, products, errors, done>>
    /\ UNCHANGED starVars

Next ==
    \/ \E v \in Texts : OnChange(v)
    \/ HandleSend
    \/ \E r \in inflight, resp \in Responses : Resolve(r, resp)
    \/ Render

Spec == Init /\ [][Next]_vars

\* every request that was dispatched settles, and queued updates are rendered
FairSpec ==
    /\ Spec
    /\ WF_vars(\E r \in inflight, resp \in Responses : Resolve(r, resp))
    /\ WF_vars(Render)

(* ------------------------------ the grid ------------------------------ *)
\* imageUrl={product.image ?? '/placeholder.png'}
Placeholder == Str("/placeholder.png")
\* imageUrl={product.image}
imageUrlRaw(p) == p.image

imageUrl(p) == Coalesce(p.image, Placeholder)

\* the props of the ProductCard of a product
CardProps(p) ==
    [imageUrl |-> imageUrl(p), title |-> p.title, rating |-> p.rating,
     link |-> p.link]

\* the product records on screen: `products.length > 0 && products.map(..)`
\* of the last render
InView ==
    IF /\ mounted
       /\ rendered.products.t = "array"
       /\ LengthPositive(rendered.products)
    THEN rendered.products.v
    ELSE <<>>

\* the cards on screen
Grid == [k \in DOMAIN InView |-> CardProps(InView[k])]

\* ProductCard: <a href={link} target="_blank" rel="noopener noreferrer">
\* around the button, rendered for every card whatever link is (React leaves
\* the href attribute out when link is undefined or null)
BuyLink(props) ==
    [rendered |-> TRUE, href |-> props.link, target |-> "_blank"]

\* the buy links on screen, one per card
BuyLinks == [k \in DOMAIN Grid |-> BuyLink(Grid[k])]

(* ----------------------------- renderStars ---------------------------- *)
\* `for (let i = 1; i <= 5; i++)`
NumStars == 5

\* the ratings renderStars is run on: -1 to 6 in steps of 1/Scale
Ratings == (0 - Scale)..((NumStars + 1) * Scale)

Min(a, b) == IF a < b THEN a ELSE b
Max(a, b) == IF a > b THEN a ELSE b

\* rating - i in the place of rating - (i - 1)
filledPercentageOffByOne(r, k) ==
    (Min(Max(r - k * Scale, 0), Scale) * 100) \div Scale

\* Math.min(Math.max(rating - (i - 1), 0), 1) * 100, for a rating r in 1/Scale
\* units: the result is a whole number of percent for Scale = 4 and Scale = 5
filledPercentage(r, k) ==
    (Min(Max(r - (k - 1) * Scale, 0), Scale) * 100) \div Scale

StarInit ==
    /\ Mounted
    /\ rating \in Ratings
    /\ i = 1
    /\ stars = <<>>
    /\ pc = "loop"

\* one turn of the loop: stars.push(..) and i++
StarPush ==
    /\ pc = "loop"
    /\ i <= NumStars
    /\ stars' = Append(stars, filledPercentage(rating, i))
    /\ i' = i + 1
    /\ UNCHANGED <<rating, pc>>
    /\ UNCHANGED recommenderVars

\* `return stars`
StarReturn ==
    /\ pc = "loop"
    /\ ~(i <= NumStars)
    /\ pc' = "done"
    /\ UNCHANGED <<rating, i, stars>>
    /\ UNCHANGED recommenderVars

StarNext == StarPush \/ StarReturn

StarSpec == StarInit /\ [][StarNext]_vars

(* =============================== claims =============================== *)
\* a populated products state: a list of N > 0 products
Populated(p) == p.t = "array" /\ Len(p.v) > 0

\* C1: submitting an input of whitespace only (or the empty input) triggers
\* no request and changes nothing: query, loading, products and the requests
\* in flight are what they were.
C1_WhitespaceSubmitIgnored ==
    [][(event' = "send" /\ \A k \in DOMAIN input : input[k] \in Whitespace)
         => UNCHANGED <<input, query, products, loading, rendered, mounted,
                        inflight, sent, errors, done>>]_vars

\* C1 witness: a whitespace-only text was submitted after a query was set.
C1_Witness ==
    /\ event = "send"
    /\ input # <<>>
    /\ \A k \in DOMAIN input : input[k] \in Whitespace
    /\ query # <<>>

\* C2: no state has loading = true together with a non-empty products list,
\* neither in the state of the component nor on screen.
C2_ExclusiveStates ==
    mounted =>
        /\ ~(loading /\ Populated(products))
        /\ ~(rendered.loading /\ Populated(rendered.products))

\* C3: the step that dispatches a request sets loading, the step in which a
\* request settles on the mounted component clears it, whatever the exit path
\* of fetchData, only a dispatch turns it on, and whenever loading is on, in
\* the state or on screen, it goes off again in both once the requests in
\* flight settle (or the component is gone).
C3_LoadingReleased ==
    /\ [][/\ sent' # sent => loading'
          /\ (mounted /\ inflight' # inflight /\ sent' = sent) => ~loading'
          /\ (~loading /\ loading') => sent' # sent]_vars
    /\ ((mounted /\ (loading \/ rendered.loading))
            ~> (~mounted \/ (~loading /\ ~rendered.loading)))

\* C3 witness: a request settled with the body `null`, on which handling the
\* response throws, while loading was on and shown; loading is off and the
\* render that follows has taken the indicator off the screen.
C3_Witness ==
    /\ event = "render"
    /\ mounted
    /\ done # NoneDone
    /\ done.resp = Ok(Null)
    /\ done.prev.loading
    /\ ~loading
    /\ ~rendered.loading

\* a 2xx response whose body is an object with a list of cards or no cards
WellFormedSuccess(resp) ==
    /\ resp.kind = "ok"
    /\ resp.data.t = "object"
    /\ resp.data.cards.t \in {"array", "undefined"}

\* the list of cards of such a response
CardsOf(resp) ==
    IF resp.data.cards.t = "array" THEN resp.data.cards ELSE List(<<>>)

\* C4: a successful response takes loading from true to false and sets
\* products to exactly the list of its cards field.
C4_SuccessReplaces ==
    (event = "resolve" /\ done.prev.mounted /\ WellFormedSuccess(done.resp))
        => /\ done.prev.loading
           /\ ~loading
           /\ products = CardsOf(done.resp)

\* C5: a request that fails in a populated state with N > 0 products leaves
\* products empty and loading false, and the render that follows shows no
\* card and no loading indicator.
C5_FailureClears ==
    (/\ event = "resolve"
     /\ done.resp.kind # "ok"
     /\ done.prev.mounted
     /\ Populated(done.prev.products))
        => /\ products = List(<<>>)
           /\ ~loading
           /\ ~RenderThrows(products)

\* C5 witness: a request failed in a populated state.
C5_Witness ==
    /\ event = "resolve"
    /\ done.resp.kind # "ok"
    /\ Populated(done.prev.products)
    /\ mounted

\* C6: a successful response with the body {} gives the empty list of
\* products by the success path: nothing is logged, the render of that list
\* does not throw, and loading is off.
C6_MissingCards ==
    (event = "resolve" /\ done.prev.mounted /\ done.resp = Ok(Obj(Undef)))
        => /\ products = List(<<>>)
           /\ errors = done.prev.errors
           /\ mounted
           /\ ~RenderThrows(products)
           /\ ~loading

\* C6 witness: the body {} arrived in a populated, loading state.
C6_Witness ==
    /\ event = "resolve"
    /\ done.resp = Ok(Obj(Undef))
    /\ done.prev.loading
    /\ Populated(done.prev.products)

\* the product list a response stands for: its cards for a 2xx response that
\* has a list of cards, the empty list for any other response
ResultOf(resp) ==
    IF resp.kind = "ok" /\ resp.data.t = "object" /\ resp.data.cards.t = "array"
    THEN resp.data.cards
    ELSE List(<<>>)

\* the product records that a value of the products state holds
Records(p) == IF p.t = "array" THEN p.v ELSE <<>>

\* C7: the product records of the component are exactly the result of the
\* request that settled last (none when it failed, and before any request
\* settled), never a mixture of two responses, and they are the records in
\* view as soon as the state has been rendered.
C7_LastSettledWins ==
    mounted =>
        /\ Records(products) =
             IF done = NoneDone THEN <<>> ELSE ResultOf(done.resp).v
        /\ rendered.products = products => InView = Records(products)

\* C7 witness: of two requests, the first settled last, in a populated state,
\* and its own cards, different ones, are in view.
C7_Witness ==
    /\ mounted
    /\ sent = 2
    /\ inflight = {}
    /\ done.id = 1
    /\ Populated(done.prev.products)
    /\ Populated(products)
    /\ products # done.prev.products
    /\ InView = products.v

\* C8: a change of query to a non-empty value dispatches exactly one request,
\* with that query, and nothing else dispatches one: none at mount, none on a
\* keystroke, none after a request settled.
C8_OneRequestPerQueryChange ==
    /\ sent = 0 /\ inflight = {}
    /\ [][/\ (query' # query /\ query' # <<>>)
               => /\ sent' = sent + 1
                  /\ inflight' = inflight \cup {[id |-> sent', prompt |-> query']}
          /\ sent' # sent => (event' = "send" /\ query' # query)
          /\ (inflight' \ inflight) # {} => sent' # sent]_vars

\* C8 witness: the second request was dispatched by a submission.
C8_Witness ==
    /\ event = "send"
    /\ sent >= 2
    /\ \E r \in inflight : r.id = sent /\ r.prompt = query

\* C9: for a rating r in [0,5], star k of renderStars is full when r >= k,
\* empty when r <= k - 1, and filled (r - (k - 1)) * 100 percent in between;
\* 3.5 gives 100,100,100,50,0, 5 gives five full stars, 0 five empty ones.
C9_StarFill ==
    (pc = "done" /\ rating >= 0 /\ rating <= 5 * Scale)
        => /\ Len(stars) = 5
           /\ \A k \in 1..5 :
                stars[k] = IF rating >= k * Scale THEN 100
                           ELSE IF rating <= (k - 1) * Scale THEN 0
                           ELSE ((rating - (k - 1) * Scale) * 100) \div Scale
           /\ 2 * rating = 7 * Scale => stars = <<100, 100, 100, 50, 0>>
           /\ rating = 5 * Scale => stars = <<100, 100, 100, 100, 100>>
           /\ rating = 0 => stars = <<0, 0, 0, 0, 0>>

\* C9 witness: renderStars returned for the rating 3.5.
C9_Witness ==
    /\ pc = "done"
    /\ 2 * rating = 7 * Scale
    /\ stars = <<100, 100, 100, 50, 0>>

\* C10: the image source of every card is the image of its record when there
\* is one and '/placeholder.png' when the image is null or absent; it is
\* never null.
C10_ImageFallback ==
    \A k \in DOMAIN Grid :
        /\ Grid[k].imageUrl.t = "string"
        /\ Grid[k].imageUrl =
             IF InView[k].image.t = "string"
             THEN InView[k].image
             ELSE Str("/placeholder.png")

\* C10 witness: a card of a record with image: null shows the placeholder.
C10_Witness ==
    \E k \in DOMAIN Grid :
        /\ InView[k].image = Null
        /\ Grid[k].imageUrl = Str("/placeholder.png")

\* C11: the card of a record with a link has a buy link to it that opens in
\* a new browsing context, and the card of a record without a link has no
\* buy link.
C11_BuyAffordance ==
    \A k \in DOMAIN BuyLinks :
        IF InView[k].link.t \in {"undefined", "null"}
        THEN ~BuyLinks[k].rendered
        ELSE /\ BuyLinks[k].rendered
             /\ BuyLinks[k].href = InView[k].link
             /\ BuyLinks[k].target = "_blank"

\* C12: no submission cancels a request in flight, every request that
\* settles on the mounted component, the last one submitted or an earlier one,
\* replaces the products by its own outcome, and every render shows the
\* outcome of the request that settled last before it: of two requests in
\* flight the one that settles last decides the products shown, in whichever
\* order they settle.
C12_LastToSettleWins ==
    [][/\ event' # "resolve" => inflight \subseteq inflight'
       /\ \A r \in inflight \ inflight' :
            /\ done'.id = r.id
            /\ mounted => Records(products') = ResultOf(done'.resp).v
       /\ (event' = "render" /\ mounted' /\ done' # NoneDone)
            => InView' = ResultOf(done'.resp).v]_vars

\* C12 witness: two requests were in flight; the second one settled first
\* with three cards, the first one settled last with one card, which is the
\* card in view.
C12_Witness ==
    /\ mounted
    /\ event = "render"
    /\ sent = 2
    /\ inflight = {}
    /\ done.id = 1
    /\ ~done.prev.loading
    /\ done.prev.products = List(<<P2, P3, P4>>)
    /\ InView = <<P1>>

\* C12 witness of the other order: the request submitted last settled last.
C12_WitnessInOrder ==
    /\ mounted
    /\ event = "render"
    /\ sent = 2
    /\ inflight = {}
    /\ done.id = 2
    /\ ~done.prev.loading
    /\ done.prev.products = List(<<P2, P3, P4>>)
    /\ InView = <<P1>>

\* C12 witness of one render for two settlements: the first request to
\* settle left a string in products, the second one a list of one card
\* before any render, and that card is in view.
C12_WitnessOneRender ==
    /\ mounted
    /\ event = "render"
    /\ sent = 2
    /\ inflight = {}
    /\ done.prev.products = Str("oops")
    /\ InView = <<P1>>

\* C13: loading is on only while a request is outstanding: loading = true
\* in the state of the component implies a request in flight.
C13_LoadingOnlyWhileOutstanding == (mounted /\ loading) => inflight # {}

\* C13 witness: loading is on with one request outstanding after another
\* request settled.
C13_Witness ==
    /\ mounted
    /\ loading
    /\ done # NoneDone
    /\ Cardinality(inflight) = 1

\* C14: a request that has not settled keeps the loading indicator on,
\* whatever other requests were submitted and settled in the meantime.
C14_OutstandingKeepsLoading == (mounted /\ inflight # {}) => loading

\* C15: when the last request to settle failed and the user then submits a
\* text that is not empty after trimming, be it the text of the failed
\* request, a request is dispatched and loading is on.
C15_ResubmitRetries ==
    (/\ mounted
     /\ event = "send"
     /\ done # NoneDone
     /\ done.resp.kind # "ok"
     /\ trim(input) # <<>>)
        => loading /\ inflight # {}

\* the failures of a request: a network error, a status outside 2xx, a body
\* that is not JSON, the body null, a cards field that is not a list, a
\* cards list with an element that is not a product record
FailureKind(resp) ==
    \/ resp.kind # "ok"
    \/ resp.data.t # "object"
    \/ resp.data.cards.t \notin {"array", "undefined", "null"}
    \/ /\ resp.data.cards.t = "array"
       /\ \E k \in DOMAIN resp.data.cards.v :
            \/ "t" \in DOMAIN resp.data.cards.v[k]
            \/ resp.data.cards.v[k].price.t # "number"

\* C16: every failure of a request, a malformed body included, leaves
\* loading off and the empty list in products, and products is a list in
\* every state.
C16_FailuresCollapse ==
    /\ products.t = "array"
    /\ (event = "resolve" /\ done.prev.mounted /\ FailureKind(done.resp))
          => products = List(<<>>) /\ ~loading
====
